---- MODULE Spec2Model ----
(***************************************************************************)
(* Model of the paged bill retrieval of src/scraper.py: load_config,        *)
(* fetch_bill_data, parse_data_to_dataframe and get_all_bills, with the     *)
(* result handling of src/main.py and the entry points of src/main.py and   *)
(* src/app.py.  Strings are sequences of one-character strings, so that     *)
(* split, replace, strip and int() are computed as Python computes them.    *)
(* Spec is one call of get_all_bills, SpecCalls two calls in a row, and     *)
(* SpecEntry an entry point from load_config to its requests.               *)
(***************************************************************************)
EXTENDS Integers, Sequences, FiniteSets, TLC

VARIABLES pc, progress_callback, df_page1, total_count_input, page_size_text,
          total_count, page_size, total_pages, page, all_dfs, outcome, error,
          events, fetched,
          run, script, earlier,
          entry, entry_pc, config_file, config, response, fetch_result,
          requests_sent

\* the position, parameters, locals and result of one call of get_all_bills,
\* with the log of what it did
runVars == <<pc, progress_callback, df_page1, total_count_input,
             page_size_text, total_count, page_size, total_pages, page,
             all_dfs, outcome, error, events, fetched>>

\* a second call of get_all_bills after the first: which call is running, the
\* responses the first call received, and how the first call ended
callVars == <<run, script, earlier>>

\* an entry point (main.py or app.py): its position, the configuration file,
\* the configuration it holds, the last response fetch_bill_data received for
\* it and the value returned for that response, and the requests sent
entryVars == <<entry, entry_pc, config_file, config, response, fetch_result,
               requests_sent>>

vars == <<runVars, callVars, entryVars>>

----------------------------------------------------------------------------
(* Bounds of the model. *)

\* most requests sent under one entry point
MaxSends == 2
\* most <tr> rows in the table body of one page
MaxRows == 2
\* largest total_pages a page-1 response may lead to
MaxPages == 3
\* longest generated text of the page-size label
MaxLabelLen == 2

----------------------------------------------------------------------------
(* Python string functions on sequences of characters. *)

Digits == {"0", "1", "2", "3", "4", "5", "6", "7", "8", "9"}

DigitVal(c) ==
    CASE c = "0" -> 0 [] c = "1" -> 1 [] c = "2" -> 2 [] c = "3" -> 3
      [] c = "4" -> 4 [] c = "5" -> 5 [] c = "6" -> 6 [] c = "7" -> 7
      [] c = "8" -> 8 [] c = "9" -> 9

\* str.strip(): leading and trailing whitespace removed
RECURSIVE LStrip(_)
LStrip(s) == IF s # <<>> /\ Head(s) = " " THEN LStrip(Tail(s)) ELSE s

RECURSIVE RStrip(_)
RStrip(s) ==
    IF s # <<>> /\ s[Len(s)] = " " THEN RStrip(SubSeq(s, 1, Len(s) - 1)) ELSE s

Strip(s) == LStrip(RStrip(s))

\* index of the first occurrence of character c in s, 0 when there is none
RECURSIVE IndexOf(_, _, _)
IndexOf(s, c, i) ==
    IF i > Len(s) THEN 0 ELSE IF s[i] = c THEN i ELSE IndexOf(s, c, i + 1)

\* s.split(c): the list of the segments of s between occurrences of c
RECURSIVE Split(_, _)
Split(s, c) ==
    LET i == IndexOf(s, c, 1)
    IN  IF i = 0 THEN <<s>>
        ELSE <<SubSeq(s, 1, i - 1)>> \o Split(SubSeq(s, i + 1, Len(s)), c)

\* s.replace(c, ''): every occurrence of c removed
RECURSIVE Remove(_, _)
Remove(s, c) ==
    IF s = <<>> THEN <<>>
    ELSE IF Head(s) = c THEN Remove(Tail(s), c)
    ELSE <<Head(s)>> \o Remove(Tail(s), c)

RECURSIVE DigitsValue(_, _)
DigitsValue(s, acc) ==
    IF s = <<>> THEN acc ELSE DigitsValue(Tail(s), 10 * acc + DigitVal(Head(s)))

\* int(s) of a str: surrounding whitespace ignored, an optional sign, then
\* one or more digits; anything else raises ValueError
IntOfStr(s) ==
    LET t == Strip(s)
        signed == t # <<>> /\ Head(t) \in {"-", "+"}
        d == IF signed THEN Tail(t) ELSE t
    IN  IF d # <<>> /\ \A i \in 1..Len(d) : d[i] \in Digits
        THEN [ok |-> TRUE,
              val |-> IF signed /\ Head(t) = "-" THEN 0 - DigitsValue(d, 0)
                      ELSE DigitsValue(d, 0)]
        ELSE [ok |-> FALSE, val |-> 0]

\* a / b rounded down
Floor(a, b) == a \div b

\* math.ceil(a / b) for b > 0
Ceil(a, b) == 0 - ((0 - a) \div b)

\* the page size used when the label cannot be parsed
DefaultPageSize == 20

----------------------------------------------------------------------------
(* pandas conversions. *)

\* pd.to_numeric(text, errors='coerce') of one cell: an optional sign, digits
\* and at most one '.' followed by one or two digits give the amount (kept
\* in hundredths); any other text gives NaN
ToNumeric(s) ==
    LET signed == s # <<>> /\ Head(s) \in {"-", "+"}
        body == IF signed THEN Tail(s) ELSE s
        parts == Split(body, ".")
        whole == parts[1]
        frac == IF Len(parts) = 2 THEN parts[2] ELSE <<>>
        allDigits(d) == \A i \in 1..Len(d) : d[i] \in Digits
        ok == /\ Len(parts) <= 2
              /\ whole # <<>> /\ allDigits(whole)
              /\ allDigits(frac) /\ Len(frac) <= 2
              /\ (Len(parts) = 2 => frac # <<>>)
        cents == 100 * DigitsValue(whole, 0)
                 + (IF Len(frac) = 1 THEN 10 * DigitsValue(frac, 0)
                    ELSE DigitsValue(frac, 0))
    IN  IF ok
        THEN [nan |-> FALSE,
              val |-> IF signed /\ Head(s) = "-" THEN 0 - cents ELSE cents]
        ELSE [nan |-> TRUE, val |-> 0]

\* the date and time words the portal prints, as whole tokens
DateTokens == {"2024-05-01"}
TimeTokens == {"12:30:05"}

\* pd.to_datetime(text, errors='coerce'): a date, or a date, blanks and a
\* time, is a date-time; any other text gives NaT
ToDatetime(s) ==
    LET t == Strip(s)
    IN  \/ Len(t) = 1 /\ t[1] \in DateTokens
        \/ /\ Len(t) >= 3
           /\ t[1] \in DateTokens
           /\ t[Len(t)] \in TimeTokens
           /\ \A i \in 2..(Len(t) - 1) : t[i] = " "

----------------------------------------------------------------------------
(* The markup of one page, as BeautifulSoup presents it to the parser. *)

\* a <tr>: the number of <td> cells, the text of the first cell, the first
\* child of the second cell (absent, a tag, or a text node), the text of its
\* <p class="text-muted"> (or none), the text of the third cell, the text of
\* <strong class="price"> in the fourth cell (or none), the text of the fourth
\* cell, and the status text of the fifth
MkRow(n, unit, kind, date, hasP, time, hasPrice, price, amount) ==
    [ncells |-> n, unit |-> unit,
     time0 |-> [kind |-> kind, text |-> date],
     time_p |-> [found |-> hasP, text |-> time],
     content |-> "xiaofei",
     price |-> [found |-> hasPrice, text |-> price],
     amount_text |-> amount,
     status |-> "ok"]

\* a well-formed row: date, time and a price element
GoodRow ==
    MkRow(5, "canteen", "str", <<" ", "2024-05-01", " ">>, TRUE, <<"12:30:05">>,
          TRUE, <<"-", "3", ".", "5", "0">>, <<"-", "3", ".", "5", "0">>)
\* a row whose date fragment is not a date; no <p> and no price element
BadTimeRow ==
    MkRow(5, "shop", "str", <<"xx">>, FALSE, <<>>,
          FALSE, <<>>, <<" ", "1", "2", " ">>)
\* a row with four cells
ShortRow ==
    MkRow(4, "canteen", "absent", <<>>, FALSE, <<>>, FALSE, <<>>, <<>>)
\* a row whose amount is not a number
BadAmountRow ==
    MkRow(5, "canteen", "str", <<"2024-05-01">>, TRUE, <<"12:30:05">>,
          TRUE, <<"a">>, <<"a">>)
\* a row whose time cell has no children
EmptyTimeRow ==
    MkRow(5, "canteen", "absent", <<>>, FALSE, <<>>, TRUE, <<"1">>, <<"1">>)
\* a row whose time cell starts with an element, not with text
TagTimeRow ==
    MkRow(6, "canteen", "tag", <<>>, TRUE, <<"12:30:05">>, TRUE, <<"1">>, <<"1">>)

RowKinds ==
    {GoodRow, BadTimeRow, ShortRow, BadAmountRow, EmptyTimeRow, TagTimeRow}

SeqsUpTo(S, n) == UNION {[1..k -> S] : k \in 0..n}

\* soup.find('input', {'id': 'totalCount'}): None, or the element with or
\* without a value attribute
NoInput == [found |-> FALSE, has_value |-> FALSE, value |-> <<>>]
InputNoValue == [found |-> TRUE, has_value |-> FALSE, value |-> <<>>]
InputValue(v) == [found |-> TRUE, has_value |-> TRUE, value |-> v]

TotalCountValues ==
    {<<"4", "5">>, <<"0">>, <<>>, <<"a", "b", "c">>, <<"-", "5">>, <<"5">>,
     <<" ", "3", " ">>, <<"7">>}

TotalCountInputs ==
    {NoInput, InputNoValue} \cup {InputValue(v) : v \in TotalCountValues}

\* soup.find('li', {'class': 'list-num'}): None, or the element and its text
NoLabel == [found |-> FALSE, text |-> <<>>]
Label(t) == [found |-> TRUE, text |-> t]

\* "tiao" stands for the character U+6761 that ends a count in the label,
\* "fwcomma" for the full-width comma U+FF0C
LabelChars == {"-", ",", "tiao", "2", "0"}

\* the label as the portal prints it (full-width comma), the same label with
\* an ASCII comma, and every short text over LabelChars
PortalLabel ==
    <<"xian", "shi", " ", "1", "-", "2", "0", "tiao", "fwcomma", "gong", "4", "5", "tiao">>
AsciiLabel ==
    <<"xian", "shi", " ", "1", "-", "2", "0", "tiao", ",", "gong", "4", "5", "tiao">>

LabelTexts == {PortalLabel, AsciiLabel} \cup SeqsUpTo(LabelChars, MaxLabelLen)

PageSizeLabels == {NoLabel} \cup {Label(t) : t \in LabelTexts}

MkSoup(table, rows, tc, ln) ==
    [table |-> table, rows |-> rows, totalCount |-> tc, listNum |-> ln]

\* the tables a page may carry: no results table, a table without a body, or
\* a table body of up to MaxRows rows; here without pagination elements
BareSoups ==
    {MkSoup(t, <<>>, NoInput, NoLabel) : t \in {"none", "notbody"}}
    \cup {MkSoup("ok", rows, NoInput, NoLabel) :
            rows \in SeqsUpTo(RowKinds, MaxRows)}

WithHints(soup, tc, ln) == [soup EXCEPT !.totalCount = tc, !.listNum = ln]

----------------------------------------------------------------------------
(* parse_data_to_dataframe *)

\* the exception the loop body raises on a row, "none" when it raises none
RowError(r) ==
    IF r.ncells < 5 THEN "none"
    ELSE IF r.time0.kind = "absent" THEN "IndexError"
    ELSE IF r.time0.kind = "tag" THEN "TypeError"
    ELSE "none"

\* the list appended to rows for one <tr> of at least 5 cells
RowValues(r) ==
    LET date_part == Strip(r.time0.text)
        time_part == IF r.time_p.found THEN Strip(r.time_p.text) ELSE <<>>
        full_time == date_part \o <<" ">> \o time_part
        amount == IF r.price.found THEN Strip(r.price.text)
                  ELSE Strip(r.amount_text)
    IN  [unit |-> r.unit, time |-> full_time, content |-> r.content,
         amount |-> amount, status |-> r.status]

RECURSIVE CollectRows(_)
CollectRows(trs) ==
    IF trs = <<>> THEN <<>>
    ELSE IF Head(trs).ncells < 5 THEN CollectRows(Tail(trs))
    ELSE <<RowValues(Head(trs))>> \o CollectRows(Tail(trs))

RECURSIVE FirstRowError(_)
FirstRowError(trs) ==
    IF trs = <<>> THEN "none"
    ELSE IF RowError(Head(trs)) # "none" THEN RowError(Head(trs))
    ELSE FirstRowError(Tail(trs))

\* the DataFrame built from rows: the time column holds the text as it is (a
\* str, never null), the amount column is converted by pd.to_numeric
MakeFrame(rows) ==
    [i \in 1..Len(rows) |->
        [unit |-> rows[i].unit,
         time |-> [nat |-> FALSE, text |-> rows[i].time],
         content |-> rows[i].content,
         amount |-> ToNumeric(rows[i].amount),
         status |-> rows[i].status]]

\* df.dropna(subset=[time, amount])
DropNa(df) == SelectSeq(df, LAMBDA r : ~r.time.nat /\ ~r.amount.nan)

ParseResult(raised, df, tc, ln) ==
    [raised |-> raised, df |-> df, total_count_input |-> tc,
     page_size_text |-> ln]

parse_data_to_dataframe(soup) ==
    IF soup.table # "ok"
    THEN ParseResult("none", <<>>, NoInput, NoLabel)
    ELSE IF FirstRowError(soup.rows) # "none"
    THEN ParseResult(FirstRowError(soup.rows), <<>>, NoInput, NoLabel)
    ELSE ParseResult("none", DropNa(MakeFrame(CollectRows(soup.rows))),
                     soup.totalCount, soup.listNum)

----------------------------------------------------------------------------
(* The pagination hints, as get_all_bills reads them from page 1. *)

\* int(total_count_input.get('value', 0)): ok is FALSE when int() raises
TotalCountOf(input) ==
    IF input.has_value THEN IntOfStr(input.value) ELSE [ok |-> TRUE, val |-> 0]

\* page_size: text.split(',')[0].split('-')[1].replace(tiao,'').strip() as an
\* int, and the default when the index or the conversion fails
PageSizeOf(text) ==
    LET parts == Split(Split(text, ",")[1], "-")
        parsed == IntOfStr(Strip(Remove(parts[2], "tiao")))
    IN  IF Len(parts) < 2 THEN DefaultPageSize
        ELSE IF parsed.ok THEN parsed.val
        ELSE DefaultPageSize

\* math.ceil(total_count / page_size)
TotalPagesOf(tc, ps) == Ceil(tc, ps)

\* the number of pages a page-1 markup makes the run page through
PagesOf(soup) ==
    LET p == parse_data_to_dataframe(soup)
        tc == TotalCountOf(p.total_count_input)
        ps == PageSizeOf(p.page_size_text.text)
    IN  IF \/ p.raised # "none" \/ p.df = <<>>
           \/ ~p.total_count_input.found \/ ~p.page_size_text.found
           \/ ~tc.ok \/ tc.val = 0 \/ ps = 0
        THEN 1
        ELSE TotalPagesOf(tc.val, ps)

----------------------------------------------------------------------------
(* fetch_bill_data *)

\* what requests.post meets: an exception before any response, or a response
\* with a status code, a final URL (with or without 'login'), a body (with or
\* without the authentication-portal title) and the markup of the body
NoSoup == MkSoup("none", <<>>, NoInput, NoLabel)

MkResponse(exc, status, login, marker, soup) ==
    [exc |-> exc, status |-> status, url_login |-> login,
     body_marker |-> marker, soup |-> soup]

ErrorResponses ==
    {MkResponse(e, 0, FALSE, FALSE, NoSoup) : e \in {"Timeout", "ConnectionError"}}
    \cup {MkResponse("none", s, FALSE, m, NoSoup) : s \in {404, 500}, m \in BOOLEAN}

LoginResponses ==
    {MkResponse("none", 200, l, m, NoSoup) :
        l \in BOOLEAN, m \in BOOLEAN} \ {MkResponse("none", 200, FALSE, FALSE, NoSoup)}

PageResponses(soups) == {MkResponse("none", 200, FALSE, FALSE, s) : s \in soups}

\* one markup for each result the parser can give on the tables of BareSoups
TableSoups ==
    LET results == {parse_data_to_dataframe(s) : s \in BareSoups}
    IN  {CHOOSE s \in BareSoups : parse_data_to_dataframe(s) = r :
            r \in results}

\* the responses to the request for page 1: a failure, a login page, or a
\* page with any of the pagination elements whose page count is in the bound
Page1Soups ==
    {s \in {WithHints(t, tc, ln) : t \in TableSoups, tc \in TotalCountInputs,
                                   ln \in PageSizeLabels} :
        PagesOf(s) <= MaxPages}

Page1Responses ==
    ErrorResponses \cup LoginResponses \cup PageResponses(Page1Soups)

\* the responses to the request for a later page
LaterSoups ==
    {WithHints(t, tc, ln) : t \in TableSoups,
                            tc \in {NoInput, InputValue(<<"4", "5">>)},
                            ln \in {NoLabel, Label(PortalLabel)}}

LaterResponses ==
    ErrorResponses \cup LoginResponses \cup PageResponses(LaterSoups)

\* response.raise_for_status(): HTTPError for a 4xx or 5xx status
\* a status check that raises for server errors only
RaisesForServerError(status) == status >= 500 /\ status < 600

RaisesForStatus(status) == status >= 400 /\ status < 600

\* the value fetch_bill_data returns: None, the cookie-expired string (written
\* "Cookie_expired" here), or the
\* parsed markup
fetch_bill_data(resp) ==
    IF resp.exc # "none" \/ RaisesForStatus(resp.status)
    THEN [kind |-> "None", soup |-> NoSoup]
    ELSE IF resp.url_login \/ resp.body_marker
    THEN [kind |-> "Cookie_expired", soup |-> NoSoup]
    ELSE [kind |-> "soup", soup |-> resp.soup]

\* the response variable before any request
NoResponse == MkResponse("unsent", 0, FALSE, FALSE, NoSoup)

\* the responses one request may receive: an exception of requests, or a
\* final status with or without a login URL and the portal's marker
FetchStatuses == {200, 304, 404, 500}
FetchResponses ==
    {MkResponse(e, 0, FALSE, FALSE, NoSoup) : e \in {"Timeout", "ConnectionError"}}
    \cup {MkResponse("none", st, l, m, sp) :
            st \in FetchStatuses, l \in BOOLEAN, m \in BOOLEAN,
            sp \in {NoSoup, MkSoup("ok", <<GoodRow>>, NoInput, NoLabel)}}

----------------------------------------------------------------------------
(* load_config and config.json *)

\* CONFIG_TEMPLATE['cookie'] of line 14, and a cookie copied from a browser
TemplateCookie == "cookie_template"
RealCookie == "JSESSIONID=1"

\* config.json: missing, not JSON, JSON that is not an object, or an object
\* with or without a "cookie" key
MkFile(kind, has_cookie, cookie) ==
    [kind |-> kind, has_cookie |-> has_cookie, cookie |-> cookie]
MissingFile == MkFile("missing", FALSE, "")
InvalidJsonFile == MkFile("invalid_json", FALSE, "")
NotObjectFile == MkFile("not_object", FALSE, "")
ObjectFile(has_cookie, cookie) == MkFile("object", has_cookie, cookie)
TemplateFile == ObjectFile(TRUE, TemplateCookie)
RealFile == ObjectFile(TRUE, RealCookie)

ConfigFiles ==
    {MissingFile, InvalidJsonFile, NotObjectFile, ObjectFile(FALSE, ""),
     ObjectFile(TRUE, ""), TemplateFile, RealFile}

\* what a name holds before load_config, None, and the dict of an object file
ConfigUnset == [kind |-> "unset", has_cookie |-> FALSE, cookie |-> ""]
ConfigNone == [kind |-> "None", has_cookie |-> FALSE, cookie |-> ""]
ConfigDict(f) == [kind |-> "dict", has_cookie |-> f.has_cookie, cookie |-> f.cookie]

\* a test of the cookie that leaves out the comparison with the template
CookieEmpty(has_cookie, cookie) == ~has_cookie \/ cookie = ""

\* line 32: not config.get('cookie') or config.get('cookie') == the template
CookieUnusable(has_cookie, cookie) ==
    ~has_cookie \/ cookie = "" \/ cookie = TemplateCookie

\* lines 19-35: the value returned (or the exception raised) and the file as
\* the call leaves it
load_config(f) ==
    IF f.kind = "missing"
    THEN [raised |-> "none", returned |-> ConfigNone, file |-> TemplateFile]
    ELSE IF f.kind = "invalid_json"
    THEN [raised |-> "none", returned |-> ConfigNone, file |-> f]
    ELSE IF f.kind = "not_object"
    THEN [raised |-> "AttributeError", returned |-> ConfigUnset, file |-> f]
    ELSE IF CookieUnusable(f.has_cookie, f.cookie)
    THEN [raised |-> "none", returned |-> ConfigNone, file |-> f]
    ELSE [raised |-> "none", returned |-> ConfigDict(f), file |-> f]

\* lines 51-82 for a given config: config['cookie'] at line 53 raises
\* TypeError for None before anything is sent
fetch_with_config(cfg, resp) ==
    IF cfg.kind # "dict" THEN [sent |-> FALSE, result |-> "TypeError"]
    ELSE [sent |-> TRUE, result |-> fetch_bill_data(resp).kind]

----------------------------------------------------------------------------
(* get_all_bills *)

\* the values get_all_bills returns
NotReturned == [kind |-> "unset", df |-> <<>>]
ReturnFrame(df) == [kind |-> "DataFrame", df |-> df]
ReturnCookie == [kind |-> "Cookie_expired", df |-> <<>>]
\* an empty DataFrame returned where line 146 returns None
ReturnEmptyFrame == ReturnFrame(<<>>)
ReturnNone == [kind |-> "None", df |-> <<>>]

\* what the run does that its caller or the portal can observe
Progress(num, den) == [ev |-> "progress", page |-> 0, num |-> num, den |-> den]
Request(p) == [ev |-> "request", page |-> p, num |-> 0, den |-> 1]
Sleep == [ev |-> "sleep", page |-> 0, num |-> 0, den |-> 1]

Callback(num, den) == IF progress_callback THEN <<Progress(num, den)>> ELSE <<>>

\* the page number over the pages that remain after page 1
FractionOfRest(p, tp) == <<p, tp - 1>>

\* the fraction handed to progress_callback before the request for page p
LoopFraction(p, tp) == <<p, tp>>

\* pd.concat(all_dfs, ignore_index=True)
RECURSIVE Concat(_)
Concat(dfs) == IF dfs = <<>> THEN <<>> ELSE Head(dfs) \o Concat(Tail(dfs))

\* a comparison with a string fetch_bill_data never returns
IsOtherString(result) == result = "Cookie-expired"

\* lines 147 and 190: the comparison of the fetch result with the string
IsCookieFailure(result) == result = "Cookie_expired"

\* a test that wants both pagination elements missing
BothHintsAbsent(tc, ln) == ~tc.found /\ ~ln.found

\* a test for None in place of the emptiness test of line 153
PageIsNone(df) == FALSE

\* line 153: df_page1.empty
PageEmpty(df) == df = <<>>

\* line 159: either pagination element was not found
HintsAbsent(tc, ln) == ~tc.found \/ ~ln.found

\* a list that outlives the call and is extended by it
ExtendAccumulator(dfs, df) == Append(dfs, df)

\* line 157: all_dfs is bound to a new list that holds the batch of page 1,
\* whatever the name held before
StartAccumulator(dfs, df) == <<df>>

\* the same page again in place of the next
RetryPage(p, tp) == p

\* a break in place of the continue of line 189
BreakLoop(p, tp) == tp + 1

\* line 189: continue goes on with the next page
ContinueLoop(p, tp) == p + 1

\* an append that leaves out a batch equal to one already kept
AccumulateDistinct(dfs, df) ==
    IF df # <<>> /\ \A i \in 1..Len(dfs) : dfs[i] # df THEN Append(dfs, df)
    ELSE dfs

\* lines 195-196: a batch that is not empty is appended
Accumulate(dfs, df) == IF df # <<>> THEN Append(dfs, df) ELSE dfs

\* the log of the requests: what fetch_bill_data returned for page p and, for
\* markup, what the parser made of it
Fetched(p, o) ==
    [page |-> p, result |-> o.result, raised |-> o.raised, df |-> o.df]

\* fetch_bill_data followed, for markup, by parse_data_to_dataframe: what one
\* request and its parse hand to get_all_bills (raised names the exception
\* the parser raises, "none" when it returns)
PageOutcome(resp) ==
    LET result == fetch_bill_data(resp)
        parsed == parse_data_to_dataframe(result.soup)
    IN  IF result.kind # "soup"
        THEN [result |-> result.kind, raised |-> "none", df |-> <<>>,
              total_count_input |-> NoInput, page_size_text |-> NoLabel]
        ELSE [result |-> "soup", raised |-> parsed.raised, df |-> parsed.df,
              total_count_input |-> parsed.total_count_input,
              page_size_text |-> parsed.page_size_text]

\* line 194 keeps only the DataFrame of a later page
DropHints(o) ==
    [result |-> o.result, raised |-> o.raised, df |-> o.df,
     total_count_input |-> NoInput, page_size_text |-> NoLabel]

Page1Outcomes == {PageOutcome(resp) : resp \in Page1Responses}
LaterOutcomes == {DropHints(PageOutcome(resp)) : resp \in LaterResponses}

\* no call has ended yet
NoEarlier == [pc |-> "Start", outcome |-> NotReturned, error |-> "none"]

\* the entry of get_all_bills: the parameters are given, no local is bound
InitRun ==
    /\ pc = "Start"
    /\ progress_callback \in BOOLEAN
    /\ df_page1 = <<>>
    /\ total_count_input = NoInput
    /\ page_size_text = NoLabel
    /\ total_count = 0
    /\ page_size = DefaultPageSize
    /\ total_pages = 0
    /\ page = 1
    /\ all_dfs = <<>>
    /\ outcome = NotReturned
    /\ error = "none"
    /\ events = <<>>
    /\ fetched = <<>>

\* the first call is running
InitCallVars == run = 1 /\ script = <<>> /\ earlier = NoEarlier

\* no entry point is modelled: get_all_bills is called with a usable
\* configuration
InitEntryVars ==
    /\ entry = "main"
    /\ entry_pc = "Ready"
    /\ config_file = RealFile
    /\ config = load_config(RealFile).returned
    /\ response = NoResponse
    /\ fetch_result = "unset"
    /\ requests_sent = 0

Init == InitRun /\ InitCallVars /\ InitEntryVars

\* lines 140-151: the progress event, the request for page 1, the two early
\* returns and the parse of page 1
FetchPage1Of(o) ==
    /\ pc = "Start"
    /\ events' = events \o Callback(0, 1) \o <<Request(1)>>
    /\ IF o.result = "None"
       THEN /\ pc' = "Failed"
            /\ outcome' = ReturnNone
            /\ fetched' = Append(fetched, Fetched(1, o))
            /\ UNCHANGED <<df_page1, total_count_input, page_size_text,
                           error>>
       ELSE IF IsCookieFailure(o.result)
       THEN /\ pc' = "Aborted"
            /\ outcome' = ReturnCookie
            /\ fetched' = Append(fetched, Fetched(1, o))
            /\ UNCHANGED <<df_page1, total_count_input, page_size_text,
                           error>>
       ELSE IF o.raised # "none"
       THEN /\ pc' = "Raised"
            /\ error' = o.raised
            /\ fetched' = Append(fetched, Fetched(1, o))
            /\ UNCHANGED <<df_page1, total_count_input, page_size_text,
                           outcome>>
       ELSE /\ pc' = "Page1Parsed"
            /\ df_page1' = o.df
            /\ total_count_input' = o.total_count_input
            /\ page_size_text' = o.page_size_text
            /\ fetched' = Append(fetched, Fetched(1, o))
            /\ UNCHANGED <<outcome, error>>
    /\ UNCHANGED <<progress_callback, total_count, page_size, total_pages,
                   page, all_dfs>>

\* the request for page 1 with any response the portal may give
FetchPage1 ==
    /\ pc = "Start"
    /\ \E o \in Page1Outcomes : FetchPage1Of(o)
    /\ UNCHANGED <<callVars, entryVars>>

\* lines 153-176: the empty page 1, the missing hints, total_count, page_size
\* and total_pages.  The two hint elements are not read after line 173: the
\* model forgets them when the run goes on to the loop.
CheckPage1Step ==
    /\ pc = "Page1Parsed"
    /\ LET tc == TotalCountOf(total_count_input)
           ps == PageSizeOf(page_size_text.text)
       IN  IF PageEmpty(df_page1)
           THEN /\ pc' = "NoData"
                /\ outcome' = ReturnFrame(<<>>)
                /\ UNCHANGED <<all_dfs, total_count, page_size, total_pages,
                               page, error, total_count_input, page_size_text>>
           ELSE IF HintsAbsent(total_count_input, page_size_text)
           THEN /\ pc' = "HintsMissing"
                /\ all_dfs' = StartAccumulator(all_dfs, df_page1)
                /\ outcome' = ReturnFrame(df_page1)
                /\ UNCHANGED <<total_count, page_size, total_pages, page,
                               error, total_count_input, page_size_text>>
           ELSE IF ~tc.ok
           THEN /\ pc' = "Raised"
                /\ all_dfs' = StartAccumulator(all_dfs, df_page1)
                /\ error' = "ValueError"
                /\ UNCHANGED <<total_count, page_size, total_pages, page,
                               outcome, total_count_input, page_size_text>>
           ELSE IF tc.val = 0 \/ ps = 0
           THEN /\ pc' = "ZeroHint"
                /\ all_dfs' = StartAccumulator(all_dfs, df_page1)
                /\ total_count' = tc.val
                /\ page_size' = ps
                /\ outcome' = ReturnFrame(df_page1)
                /\ UNCHANGED <<total_pages, page, error, total_count_input,
                               page_size_text>>
           ELSE /\ pc' = "Paging"
                /\ all_dfs' = StartAccumulator(all_dfs, df_page1)
                /\ total_count' = tc.val
                /\ page_size' = ps
                /\ total_pages' = TotalPagesOf(tc.val, ps)
                /\ page' = 2
                /\ total_count_input' = NoInput
                /\ page_size_text' = NoLabel
                /\ UNCHANGED <<outcome, error>>
    /\ UNCHANGED <<progress_callback, df_page1, events, fetched>>

\* the step in a single call
CheckPage1 == CheckPage1Step /\ UNCHANGED <<callVars, entryVars>>

\* lines 179-198: one iteration of the loop over pages 2..total_pages
FetchNextPageOf(o) ==
    /\ pc = "Paging"
    /\ total_pages > 1
    /\ page <= total_pages
    /\ LET before == events
                      \o Callback(LoopFraction(page, total_pages)[1],
                                  LoopFraction(page, total_pages)[2])
                      \o <<Request(page)>>
        IN  IF o.result = "None"
            THEN /\ page' = ContinueLoop(page, total_pages)
                 /\ events' = before
                 /\ fetched' = Append(fetched, Fetched(page, o))
                 /\ UNCHANGED <<pc, all_dfs, outcome, error>>
            ELSE IF IsCookieFailure(o.result)
            THEN /\ pc' = "Aborted"
                 /\ outcome' = ReturnCookie
                 /\ events' = before
                 /\ fetched' = Append(fetched, Fetched(page, o))
                 /\ UNCHANGED <<page, all_dfs, error>>
            ELSE IF o.raised # "none"
            THEN /\ pc' = "Raised"
                 /\ error' = o.raised
                 /\ events' = before
                 /\ fetched' = Append(fetched, Fetched(page, o))
                 /\ UNCHANGED <<page, all_dfs, outcome>>
            ELSE /\ page' = page + 1
                 /\ all_dfs' = Accumulate(all_dfs, o.df)
                 /\ events' = before \o <<Sleep>>
                 /\ fetched' = Append(fetched, Fetched(page, o))
                 /\ UNCHANGED <<pc, outcome, error>>
    /\ UNCHANGED <<progress_callback, df_page1, total_count_input,
                   page_size_text, total_count, page_size, total_pages>>

\* the request for a later page with any response the portal may give
FetchNextPage ==
    /\ pc = "Paging"
    /\ \E o \in LaterOutcomes : FetchNextPageOf(o)
    /\ UNCHANGED <<callVars, entryVars>>

\* lines 200-205: the concatenation, the last progress event and the return
FinishStep ==
    /\ pc = "Paging"
    /\ total_pages <= 1 \/ page > total_pages
    /\ pc' = "Done"
    /\ outcome' = ReturnFrame(Concat(all_dfs))
    /\ events' = events \o Callback(1, 1)
    /\ UNCHANGED <<progress_callback, df_page1, total_count_input,
                   page_size_text, total_count, page_size, total_pages, page,
                   all_dfs, error, fetched>>

\* the step in a single call
Finish == FinishStep /\ UNCHANGED <<callVars, entryVars>>

Next == FetchPage1 \/ CheckPage1 \/ FetchNextPage \/ Finish

Spec == Init /\ [][Next]_vars

----------------------------------------------------------------------------
(* The caller, src/main.py lines 29-49. *)

\* the branch main takes on the value get_all_bills returned
main_branch(bill_df) ==
    IF bill_df.kind = "None" THEN "network"
    ELSE IF bill_df.kind = "Cookie_expired" THEN "cookie"
    ELSE IF bill_df.df # <<>> THEN "export"
    ELSE "empty"

----------------------------------------------------------------------------
(* get_all_bills called twice, as by two runs of main or two clicks of the   *)
(* button of app.py, which pass no progress callback.  The second call is    *)
(* given the responses the first call received.  A call binds none of its    *)
(* locals on entry: the model leaves in them what the first call left, and   *)
(* the code's own assignments have to replace it.                            *)

\* the responses a request may receive: any response in the first call, the
\* next one of the first call in the second
Received(all) ==
    IF run = 1 THEN all ELSE IF script # <<>> THEN {Head(script)} ELSE {}

\* the first call records the response, the second uses it up
Consumed(o) == IF run = 1 THEN Append(script, o) ELSE Tail(script)

\* main.py line 26 and app.py line 14 pass no progress callback
InitCalls == Init /\ ~progress_callback

\* the pages of the two calls hold at most one record each: how many records
\* a page holds plays no part in what a call keeps
OneRecord(outcomes) == {o \in outcomes : Len(o.df) <= 1}
CallPage1Outcomes == OneRecord(Page1Outcomes)
CallLaterOutcomes == OneRecord(LaterOutcomes)

CallFetchPage1 ==
    /\ pc = "Start"
    /\ \E o \in Received(CallPage1Outcomes) :
         FetchPage1Of(o) /\ script' = Consumed(o)
    /\ UNCHANGED <<run, earlier, entryVars>>

CallCheckPage1 == CheckPage1Step /\ UNCHANGED <<callVars, entryVars>>

CallFetchNextPage ==
    /\ pc = "Paging"
    /\ \E o \in Received(CallLaterOutcomes) :
         FetchNextPageOf(o) /\ script' = Consumed(o)
    /\ UNCHANGED <<run, earlier, entryVars>>

CallFinish == FinishStep /\ UNCHANGED <<callVars, entryVars>>

\* line 135 entered again: the position is the start, nothing is returned or
\* raised yet and the log is new; no local is bound
CallAgain ==
    /\ run = 1
    /\ pc \notin {"Start", "Page1Parsed", "Paging"}
    /\ run' = 2
    /\ earlier' = [pc |-> pc, outcome |-> outcome, error |-> error]
    /\ pc' = "Start"
    /\ outcome' = NotReturned
    /\ error' = "none"
    /\ events' = <<>>
    /\ fetched' = <<>>
    /\ UNCHANGED <<progress_callback, df_page1, total_count_input,
                   page_size_text, total_count, page_size, total_pages, page,
                   all_dfs, script, entryVars>>

NextCalls ==
    \/ CallFetchPage1 \/ CallCheckPage1 \/ CallFetchNextPage \/ CallFinish
    \/ CallAgain

SpecCalls == InitCalls /\ [][NextCalls]_vars

----------------------------------------------------------------------------
(* The entry points main.main and app.main with run_analysis, from the       *)
(* loading of the configuration to the calls of fetch_bill_data.             *)

InitEntry ==
    /\ InitRun /\ ~progress_callback
    /\ InitCallVars
    /\ entry \in {"main", "app"}
    /\ entry_pc = "Launch"
    /\ config_file \in ConfigFiles
    /\ config = ConfigUnset
    /\ response = NoResponse
    /\ fetch_result = "unset"
    /\ requests_sent = 0

\* main.py lines 14-17 and app.py lines 143-153: load_config is called; main
\* returns on a falsy config and ends on an exception, app returns on an
\* exception and keeps any value returned in the session
LoadConfig ==
    /\ entry_pc = "Launch"
    /\ LET r == load_config(config_file)
       IN  /\ config_file' = r.file
           /\ config' = r.returned
           /\ entry_pc' = IF r.raised # "none" THEN "Exit"
                          ELSE IF entry = "main" /\ r.returned.kind # "dict"
                          THEN "Exit"
                          ELSE "Ready"
    /\ UNCHANGED <<entry, response, fetch_result, requests_sent>>
    /\ UNCHANGED <<runVars, callVars>>

\* one call of fetch_bill_data by get_all_bills (lines 144 and 182) under the
\* entry point; the TypeError for a None config is caught at app.py line 63
FetchBillData ==
    /\ entry_pc = "Ready"
    /\ requests_sent < MaxSends
    /\ \E resp \in FetchResponses :
        LET f == fetch_with_config(config, resp)
        IN  /\ fetch_result' = f.result
            /\ response' = IF f.sent THEN resp ELSE response
            /\ requests_sent' = IF f.sent THEN requests_sent + 1
                                ELSE requests_sent
    /\ UNCHANGED <<entry, entry_pc, config_file, config>>
    /\ UNCHANGED <<runVars, callVars>>

\* main.py lines 29-49: main ends when get_all_bills has returned
MainReturns ==
    /\ entry = "main"
    /\ entry_pc = "Ready"
    /\ fetch_result # "unset"
    /\ entry_pc' = "Exit"
    /\ UNCHANGED <<entry, config_file, config, response, fetch_result,
                   requests_sent>>
    /\ UNCHANGED <<runVars, callVars>>

\* the user edits, replaces or deletes config.json
EditFile ==
    /\ config_file' \in ConfigFiles \ {config_file}
    /\ UNCHANGED <<entry, entry_pc, config, response, fetch_result,
                   requests_sent>>
    /\ UNCHANGED <<runVars, callVars>>

\* the program is started again: a new process of main, or a rerun of app.py
\* whose session holds no config
Relaunch ==
    /\ entry_pc = "Exit"
    /\ entry_pc' = "Launch"
    /\ config' = ConfigUnset
    /\ UNCHANGED <<entry, config_file, response, fetch_result, requests_sent>>
    /\ UNCHANGED <<runVars, callVars>>

NextEntry ==
    LoadConfig \/ FetchBillData \/ MainReturns \/ EditFile \/ Relaunch

SpecEntry == InitEntry /\ [][NextEntry]_vars

\* main.py lines 40-42: the amount column is already numeric, the time
\* column is converted by pd.to_datetime(errors='coerce'), then dropna
main_coerce(df) ==
    DropNa([i \in 1..Len(df) |->
              [df[i] EXCEPT !.time = [nat |-> ~ToDatetime(df[i].time.text),
                                      text |-> df[i].time.text]]])

\* main.py lines 29-49: whether to_excel is called, and with which rows
main_export(bill_df) ==
    IF main_branch(bill_df) = "export"
    THEN [written |-> TRUE, rows |-> main_coerce(bill_df.df)]
    ELSE [written |-> FALSE, rows |-> <<>>]

----------------------------------------------------------------------------
(* Properties. *)

Returned == outcome # NotReturned

\* the pages of the log whose request returned markup that was parsed
RECURSIVE ParsedBatches(_)
ParsedBatches(log) ==
    IF log = <<>> THEN <<>>
    ELSE IF Head(log).result = "soup"
    THEN Head(log).df \o ParsedBatches(Tail(log))
    ELSE ParsedBatches(Tail(log))

ResultsOf(log) == {log[i].result : i \in 1..Len(log)}

Page1Succeeded == fetched # <<>> /\ fetched[1].result = "soup"

\* C1: when page 1 succeeded, total_pages >= 2 and no page was an
\* authentication failure, the value the run returns is a DataFrame holding the
\* batches of exactly the pages that were fetched and parsed, in page order;
\* every page 1..total_pages was requested once, and a page whose request
\* failed contributes nothing and stops nothing.
C1_TransportFailureSkipsOnlyThatPage ==
    (Returned /\ Page1Succeeded /\ total_pages >= 2
        /\ "Cookie_expired" \notin ResultsOf(fetched))
    => /\ pc = "Done"
       /\ outcome.kind = "DataFrame"
       /\ outcome.df = ParsedBatches(fetched)
       /\ Len(fetched) = total_pages
       /\ \A k \in 1..Len(fetched) :
            /\ fetched[k].page = k
            /\ fetched[k].result \in {"soup", "None"}

\* the page events of the run: the pages requested, in order
RECURSIVE RequestedPages(_)
RequestedPages(evs) ==
    IF evs = <<>> THEN <<>>
    ELSE IF Head(evs).ev = "request"
    THEN <<Head(evs).page>> \o RequestedPages(Tail(evs))
    ELSE RequestedPages(Tail(evs))

\* C2: once the fetch of a page k is classified as an authentication failure
\* the run is over: it returned the cookie-expired string and no DataFrame,
\* page k is the last page requested (pages 1..k were, none after), and the
\* rows of the pages before k are not in the returned value.
C2_AuthFailureAborts ==
    "Cookie_expired" \in ResultsOf(fetched)
    => /\ pc = "Aborted"
       /\ outcome = ReturnCookie
       /\ outcome.kind # "DataFrame" /\ outcome.df = <<>>
       /\ fetched[Len(fetched)].result = "Cookie_expired"
       /\ \A k \in 1..(Len(fetched) - 1) : fetched[k].result # "Cookie_expired"
       /\ RequestedPages(events) = [k \in 1..Len(fetched) |-> k]
       /\ main_branch(outcome) = "cookie"

\* an authentication failure on page 3, after rows of pages 1 and 2
C2_Witness ==
    /\ pc = "Aborted"
    /\ Len(fetched) = 3
    /\ fetched[1].df # <<>> /\ fetched[2].df # <<>>
    /\ fetched[3].result = "Cookie_expired"
    /\ total_pages = 3

\* C3: None is returned only by the run whose request for page 1 failed (and
\* by every such run), so no run that fetched page 1 ends in Failed; and the
\* caller tells Failed, Aborted and NoData apart: main takes a different
\* branch on each of the three returned values.
C3_FailedOnlyFromPage1 ==
    /\ (pc = "Failed" \/ outcome.kind = "None")
        => /\ pc = "Failed" /\ outcome = ReturnNone
           /\ Len(fetched) = 1 /\ fetched[1].result = "None"
    /\ (fetched # <<>> /\ fetched[1].result = "None") => pc = "Failed"
    /\ pc = "Failed" => main_branch(outcome) = "network"
    /\ pc = "Aborted" => main_branch(outcome) = "cookie"
    /\ pc = "NoData" => main_branch(outcome) = "empty"

\* the request for page 1 failed and the caller is told so
C3_Witness ==
    /\ pc = "Failed"
    /\ fetched[1].result = "None"
    /\ main_branch(outcome) = "network"

\* The label text read as the claim describes it: the count that follows the
\* first '-' of the part before the first ',', up to the next '-', with the
\* count character removed and blanks ignored.  LabelCount is <<>> when the
\* text has no such part.
Positions(t, c) == {i \in 1..Len(t) : t[i] = c}
Least(S) == CHOOSE i \in S : \A j \in S : i <= j
LabelCount(t) ==
    LET stop == IF Positions(t, ",") = {} THEN Len(t) + 1
                ELSE Least(Positions(t, ","))
        dashes == {i \in Positions(t, "-") : i < stop}
        from == Least(dashes)
        till == IF {i \in dashes : i > from} = {} THEN stop
                ELSE Least({i \in dashes : i > from})
    IN  IF dashes = {} THEN <<>>
        ELSE SelectSeq(SubSeq(t, from + 1, till - 1),
                       LAMBDA c : c \notin {"tiao", " "})
LabelParses(t) == IntOfStr(LabelCount(t)).ok
ExpectedPageSize(t) ==
    IF LabelParses(t) THEN IntOfStr(LabelCount(t)).val ELSE DefaultPageSize

\* n = ceil(tc / ps), said without division
IsCeiling(n, tc, ps) == n * ps >= tc /\ (n - 1) * ps < tc

PagesRequested == Len(RequestedPages(events))

\* C4 as the spec states it: whenever page 1 yields a record the run pages
\* through ceil(total_count / page_size) pages (one page at least), with
\* page_size 20 when the label is absent or does not parse.
C4_Original ==
    LET tc == TotalCountOf(total_count_input)
        ps == IF page_size_text.found
              THEN ExpectedPageSize(page_size_text.text)
              ELSE DefaultPageSize
    IN  /\ (pc \in {"HintsMissing", "ZeroHint"} /\ total_count_input.found
            /\ tc.ok /\ ps > 0)
           => \E n \in 0..(MaxPages + 1) :
                /\ IsCeiling(n, tc.val, ps)
                /\ PagesRequested = IF n < 1 THEN 1 ELSE n
        /\ pc = "Done"
           => /\ IsCeiling(total_pages, total_count, page_size)
              /\ PagesRequested = IF total_pages < 1 THEN 1 ELSE total_pages

\* C4, amended: when page 1 yields a record, both pagination elements are
\* present, total_count is an integer other than 0 and page_size is not 0, the
\* run goes on with total_pages = ceil(total_count / page_size), where
\* page_size is the count parsed from the label and 20 when the label text
\* does not parse; when either element is absent the run stops with page 1.
C4_TotalPages ==
    [][(pc = "Page1Parsed" /\ df_page1 # <<>>)
       => LET tc == TotalCountOf(total_count_input)
              ps == ExpectedPageSize(page_size_text.text)
          IN  IF ~total_count_input.found \/ ~page_size_text.found
              THEN pc' = "HintsMissing" /\ total_pages' = total_pages
              ELSE (tc.ok /\ tc.val # 0 /\ ps # 0)
                   => /\ pc' = "Paging"
                      /\ total_count' = tc.val
                      /\ page_size' = ps
                      /\ IsCeiling(total_pages', tc.val, ps)
      ]_vars

\* 45 records at 20 a page: three pages
C4_Witness ==
    /\ pc = "Paging"
    /\ total_count = 45 /\ page_size = 20 /\ total_pages = 3
    /\ page = 2

\* C5 as the spec states it: when page 1 has a record and both pagination
\* elements, and the value of the total-count input is absent or is no
\* integer, total_count is 0 and the run returns the rows of page 1; it does
\* not raise.
C5_Original ==
    (/\ pc \notin {"Start", "Page1Parsed"}
     /\ Page1Succeeded /\ fetched[1].df # <<>>
     /\ total_count_input.found /\ page_size_text.found
     /\ (~total_count_input.has_value \/ ~IntOfStr(total_count_input.value).ok))
    => /\ error = "none"
       /\ total_count = 0
       /\ outcome = ReturnFrame(fetched[1].df)

\* C6: a page 1 with at least one record that lacks either pagination element
\* ends the run in HintsMissing: the rows of page 1 are returned, page 1 is
\* the only page requested, and nothing follows.
C6_HintsMissingReturnsPage1 ==
    [][/\ (/\ pc = "Page1Parsed" /\ df_page1 # <<>>
           /\ (~total_count_input.found \/ ~page_size_text.found))
          => /\ pc' = "HintsMissing"
             /\ outcome' = ReturnFrame(df_page1)
             /\ outcome'.df = fetched[1].df
             /\ RequestedPages(events') = <<1>>
       /\ pc = "HintsMissing" => FALSE
      ]_vars

\* page 1 with two records and a total-count input but no page-size label
C6_Witness ==
    /\ pc = "HintsMissing"
    /\ total_count_input = InputValue(<<"4", "5">>)
    /\ ~page_size_text.found
    /\ Len(outcome.df) = 2
    /\ RequestedPages(events) = <<1>>

\* C7: when page 1 is fetched and parsed to zero records the run ends in
\* NoData: an empty DataFrame is returned (main reports no records), page 1
\* is the only page requested, whatever pagination elements page 1 carries.
C7_EmptyPage1IsNoData ==
    (/\ Page1Succeeded /\ fetched[1].raised = "none" /\ fetched[1].df = <<>>
     /\ pc # "Page1Parsed")
    => /\ pc = "NoData"
       /\ outcome = ReturnFrame(<<>>)
       /\ main_branch(outcome) = "empty"
       /\ RequestedPages(events) = <<1>>

\* an empty page 1 that announces 45 records at 20 a page
C7_Witness ==
    /\ pc = "NoData"
    /\ total_count_input = InputValue(<<"4", "5">>)
    /\ page_size_text = Label(AsciiLabel)
    /\ outcome = ReturnFrame(<<>>)

\* the records of the log and of the returned value
Records(df) == {df[i] : i \in 1..Len(df)}
AllRecords ==
    Records(outcome.df) \cup UNION {Records(fetched[k].df) : k \in 1..Len(fetched)}

\* C8 as the spec states it: every record of every batch the parser returns
\* and of the returned DataFrame has a timestamp that is a date-time and an
\* amount that is a number.
C8_Original ==
    \A r \in AllRecords : ToDatetime(r.time.text) /\ ~r.amount.nan

\* C9 as the spec states it: no row makes the parser raise, on any page.
C9_Original ==
    /\ \A k \in 1..Len(fetched) : fetched[k].raised = "none"
    /\ error \notin {"IndexError", "TypeError"}

\* C10: the fraction of every progress event lies in [0, 1].
C10_ProgressFractionInUnitInterval ==
    \A i \in 1..Len(events) :
        events[i].ev = "progress"
        => /\ events[i].den > 0
           /\ 0 <= events[i].num
           /\ events[i].num <= events[i].den

\* a run of three pages with a callback: 0, 2/3, 3/3 and 1 were reported,
\* page 2 having been skipped
C10_Witness ==
    /\ pc = "Done" /\ progress_callback /\ total_pages = 3
    /\ fetched[2].result = "None"
    /\ {<<events[i].num, events[i].den>> :
            i \in {j \in 1..Len(events) : events[j].ev = "progress"}}
       = {<<0, 1>>, <<2, 3>>, <<3, 3>>, <<1, 1>>}


\* the sequence 1, 2, ..., n
UpTo(n) == [k \in 1..n |-> k]

\* C11: at every step the pages requested so far are 1, 2, ..., n, each once
\* and in this order, one request for each entry of the log (a page whose
\* request failed is not requested again); total_pages does not change once
\* the loop runs; and a run that returns after the loop, or without it because
\* the count is 0, has requested exactly the pages 1..max(1, total_pages).
C11_PagesRequestedInOrderOnce ==
    [][/\ RequestedPages(events') = UpTo(Len(fetched'))
       /\ \A k \in 1..Len(fetched') : fetched'[k].page = k
       /\ pc = "Paging" => total_pages' = total_pages
       /\ pc' \in {"Done", "ZeroHint"}
          => RequestedPages(events')
             = UpTo(IF total_pages' > 1 THEN total_pages' ELSE 1)
      ]_vars

\* three pages requested once each although the requests for 2 and 3 failed
C11_Witness ==
    /\ pc = "Done"
    /\ total_pages = 3
    /\ RequestedPages(events) = <<1, 2, 3>>
    /\ fetched[2].result = "None" /\ fetched[3].result = "None"


\* C12: between every two consecutive page requests of a run there is a
\* sleep of the inter-page delay.
C12_Original ==
    \A i, j \in 1..Len(events) :
        /\ i < j
        /\ events[i].ev = "request" /\ events[j].ev = "request"
        /\ \A k \in (i + 1)..(j - 1) : events[k].ev # "request"
        => \E k \in (i + 1)..(j - 1) : events[k] = Sleep


\* the number of records of page k of the log that reached the parser
BatchLen(log, k) == IF log[k].result = "soup" THEN Len(log[k].df) ELSE 0

\* the number of records of the pages before page k
RECURSIVE RecordsBefore(_, _)
RecordsBefore(log, k) ==
    IF k = 1 THEN 0 ELSE RecordsBefore(log, k - 1) + BatchLen(log, k - 1)

\* C13: the DataFrame returned after the loop holds, for every page that was
\* fetched and parsed, the records of that page at the positions that follow
\* the records of all earlier pages, in the order of the page; its length is
\* the sum of the record counts of these pages, whether or not the same
\* records occur on several pages.
C13_ConcatenationInPageOrder ==
    pc = "Done"
    => /\ outcome.kind = "DataFrame"
       /\ Len(outcome.df) = RecordsBefore(fetched, Len(fetched) + 1)
       /\ \A k \in 1..Len(fetched) : \A i \in 1..BatchLen(fetched, k) :
            outcome.df[RecordsBefore(fetched, k) + i] = fetched[k].df[i]

\* two pages with the same two records: the result holds all four
C13_Witness ==
    /\ pc = "Done"
    /\ Len(fetched) >= 2
    /\ fetched[1].result = "soup" /\ fetched[2].result = "soup"
    /\ Len(fetched[1].df) = 2
    /\ fetched[2].df = fetched[1].df
    /\ Len(outcome.df) >= 4
    /\ SubSeq(outcome.df, 1, 2) = SubSeq(outcome.df, 3, 4)


\* the positions of get_all_bills at which the run is still going on
Running == {"Start", "Page1Parsed", "Paging"}

\* C14: a run that has stopped has returned a value, in one of the outcomes
\* Done (with the return of line 173 counted as Done), NoData, HintsMissing,
\* Aborted or Failed.
C14_Original ==
    pc \notin Running
    => /\ pc \in {"Done", "ZeroHint", "NoData", "HintsMissing", "Aborted",
                  "Failed"}
       /\ Returned


\* C17: when main, which passes no progress callback, writes the spreadsheet
\* for the value a run returned, that value is a DataFrame and the rows
\* written, after main's conversion of amount and time, are at least one; for
\* None, the cookie string or an empty DataFrame nothing is written.
C17_Original ==
    (Returned /\ ~progress_callback)
    => /\ main_export(outcome).written
          => outcome.kind = "DataFrame" /\ main_export(outcome).rows # <<>>
       /\ (outcome.kind # "DataFrame" \/ outcome.df = <<>>)
          => ~main_export(outcome).written


\* C16: a second call of get_all_bills that is given the responses of the
\* first asks for no response the first did not receive and, when it stops,
\* has used all of them and ends as the first did: in the same outcome, with
\* the same value returned or the same exception raised.
C16_NoStateAcrossCalls ==
    run = 2
    => /\ (pc = "Start" \/ (pc = "Paging" /\ total_pages > 1
                             /\ page <= total_pages))
          => script # <<>>
       /\ pc \notin Running
          => /\ script = <<>>
             /\ [pc |-> pc, outcome |-> outcome, error |-> error] = earlier

\* a second call that returned the records of two pages after a first call
\* that did
C16_Witness ==
    /\ run = 2
    /\ pc = "Done"
    /\ total_pages >= 2
    /\ Len(all_dfs) >= 2
    /\ earlier.pc = "Done"
    /\ outcome = earlier.outcome
    /\ Len(outcome.df) >= 2


\* a step in which a call of fetch_bill_data returned a value
FetchReturned ==
    /\ <<response, fetch_result, requests_sent>>'
         # <<response, fetch_result, requests_sent>>
    /\ fetch_result' # "TypeError"

\* the request of the step ended in an exception of requests
RequestFailed == response'.exc # "none"

\* the response of the step shows the login flow or the portal's marker
LoginShown == response'.url_login \/ response'.body_marker

\* C15 as stated: a call that returns has sent exactly one request and returns
\* one of markup, the cookie string or None; None exactly for an exception or
\* a status outside 200..299, and the cookie string exactly for a status in
\* 200..299 with a login URL or the marker in the body.
C15_Original ==
    [][FetchReturned
       => /\ requests_sent' = requests_sent + 1
          /\ fetch_result' \in {"soup", "Cookie_expired", "None"}
          /\ fetch_result' = "None"
             <=> (RequestFailed \/ response'.status \notin 200..299)
          /\ fetch_result' = "Cookie_expired"
             <=> (~RequestFailed /\ response'.status \in 200..299
                  /\ LoginShown)
      ]_vars

\* C15: a call that returns has sent exactly one request and returns one of
\* markup, the cookie string or None; None exactly for an exception or a
\* status in 400..599, whatever the body carries, and the cookie string
\* exactly when the request ended without an exception, with a status outside
\* 400..599, and the URL shows a login flow or the body carries the marker.
C15_FetchClassification ==
    [][FetchReturned
       => /\ requests_sent' = requests_sent + 1
          /\ fetch_result' \in {"soup", "Cookie_expired", "None"}
          /\ fetch_result' = "None"
             <=> (RequestFailed \/ response'.status \in 400..599)
          /\ fetch_result' = "Cookie_expired"
             <=> (~RequestFailed /\ response'.status \notin 400..599
                  /\ LoginShown)
      ]_vars

\* a 404 whose body carries the marker was returned as None
C15_Witness ==
    /\ requests_sent = 1
    /\ response.exc = "none"
    /\ response.status = 404
    /\ response.body_marker
    /\ fetch_result = "None"

\* config.json as the claim lists it: missing, not JSON, or an object whose
\* cookie is absent, empty or the template's
FileUnusable(f) ==
    \/ f.kind \in {"missing", "invalid_json"}
    \/ f.kind = "object"
       /\ (~f.has_cookie \/ f.cookie \in {"", TemplateCookie})

\* C18: a request is sent only under a config that is a dict with a cookie
\* that is neither empty nor the template's; and a call of load_config on a
\* missing, invalid or cookie-less file returns None and leaves a file that is
\* still unusable (the template, for a missing file; the same file otherwise),
\* so that the next call returns None again unless the file was edited.
C18_NoRequestWithoutConfig ==
    [][/\ requests_sent' # requests_sent
          => /\ config.kind = "dict"
             /\ config.has_cookie
             /\ config.cookie \notin {"", TemplateCookie}
       /\ (entry_pc = "Launch" /\ entry_pc' # "Launch"
           /\ FileUnusable(config_file))
          => /\ config' = ConfigNone
             /\ FileUnusable(config_file')
             /\ config_file' = IF config_file = MissingFile THEN TemplateFile
                               ELSE config_file
      ]_vars

\* app.py holds None for the template file and its call of get_all_bills
\* ended in the TypeError, with nothing sent
C18_Witness ==
    /\ entry = "app"
    /\ entry_pc = "Ready"
    /\ config_file = TemplateFile
    /\ config = ConfigNone
    /\ fetch_result = "TypeError"
    /\ requests_sent = 0

\* a run of three pages whose page 2 failed and whose pages 1 and 3 gave rows
C1_Witness ==
    /\ pc = "Done"
    /\ total_pages = 3
    /\ fetched[2].result = "None"
    /\ fetched[3].result = "soup" /\ fetched[3].df # <<>>
    /\ outcome.df = fetched[1].df \o fetched[3].df

====
